---------------------------- MODULE Spec2Model ----------------------------
(***************************************************************************)
(* BtMeshGenerator.py: the Bluetooth Mesh Device Composition Data (DCD)    *)
(* generator.  The module models the entity constructors, the identifier   *)
(* derivation, the chunk fold (DCD.add_chunk), the validator, the vendor   *)
(* model aggregator and the order of the steps of __main__.                *)
(*                                                                         *)
(* Texts that the code inspects character by character (numeric literals,  *)
(* names given to to_c_macro) are sequences of one-character strings.      *)
(* An optional group is <<>> (None) or <<g>> (the string g).               *)
(***************************************************************************)
EXTENDS Integers, Sequences, FiniteSets, TLC

VARIABLES
    pc,                     \* position in __main__, or "call"/"ret" of a single call
    elements,               \* dcd.elements
    unique_vendor_models,   \* dcd.unique_vendor_models
    prev,                   \* dcd.elements before the last add_chunk call
    chunk,                  \* the argument of the last add_chunk call
    used,                   \* input consumed so far (files and element records)
    inputsDistinct,         \* every Element built so far had distinct mids and vmids
    printed,                \* messages validate has printed
    exit_status,            \* argument of exit(), 0 while none was called
    h_written,              \* sl_btmesh_dcd.h was written
    c_written,              \* sl_btmesh_dcd.c was written
    dcd0,                   \* dcd.elements as constructed from the config
    pending,                \* the chunks of the .dcd files still on disk
    left,                   \* indices of pending not folded yet
    record,                 \* argument record of the Element constructor
    built,                  \* result of the Element constructor
    log,                    \* warnings check_vendor_models has printed
    name,                   \* argument of to_c_macro
    macro                   \* result of to_c_macro

vars == <<pc, elements, unique_vendor_models, prev, chunk, used, inputsDistinct,
          printed, exit_status, h_written, c_written, dcd0, pending, left,
          record, built, log, name, macro>>

mainVars == <<printed, exit_status, h_written, c_written, unique_vendor_models>>
orderVars == <<dcd0, pending, left>>
elemVars == <<record, built, log>>
macroVars == <<name, macro>>

---------------------------------------------------------------------------
(* Generic helpers *)

Range(s) == {s[i] : i \in 1..Len(s)}

Min(S) == CHOOSE x \in S : \A y \in S : x <= y

RECURSIVE Pow2(_)
Pow2(n) == IF n = 0 THEN 1 ELSE 2 * Pow2(n - 1)

SeqsUpTo(S, n) == UNION {[1..k -> S] : k \in 0..n}

RECURSIVE SumSeq(_)
SumSeq(s) == IF s = <<>> THEN 0 ELSE Head(s) + SumSeq(Tail(s))

---------------------------------------------------------------------------
(* int(text, 0): a decimal literal, or a hexadecimal one after "0x" *)

DigitVal(c) ==
    CASE c = "0" -> 0 [] c = "1" -> 1 [] c = "2" -> 2 [] c = "3" -> 3
      [] c = "4" -> 4 [] c = "5" -> 5 [] c = "6" -> 6 [] c = "7" -> 7
      [] c = "8" -> 8 [] c = "9" -> 9 [] c = "a" -> 10 [] c = "b" -> 11
      [] c = "c" -> 12 [] c = "d" -> 13 [] c = "e" -> 14 [] c = "f" -> 15

RECURSIVE Digits(_, _, _)
Digits(s, base, acc) ==
    IF s = <<>> THEN acc
    ELSE Digits(Tail(s), base, acc * base + DigitVal(Head(s)))

int0(s) ==
    IF Len(s) > 2 /\ s[1] = "0" /\ s[2] = "x"
    THEN Digits(SubSeq(s, 3, Len(s)), 16, 0)
    ELSE Digits(s, 10, 0)

---------------------------------------------------------------------------
(* Entity model *)

SIGModel(m) == [mid |-> int0(m.mid), name |-> m.name]

VendorModel(m) == [mid |-> int0(m.mid), cid |-> int0(m.cid), name |-> m.name]

VmidShift == 16

\* self.mid << 16 + self.cid : the shift count is 16 + cid
vmid(m) == m.mid * Pow2(VmidShift + m.cid)

NoGroup == <<>>

Source(filename, group) == [filename |-> filename, group |-> group]

\* Source.__eq__: the (filename, group) pairs are equal
SourceEq(s, t) == <<s.filename, s.group>> = <<t.filename, t.group>>


\* Element.check_vendor_models, the scan: the first pair (k, i), k < i, in the
\* order of the loops, that shares a name or a mid gives the one warning
\* printed before the return; index(m) is m's own position, VendorModel
\* having no __eq__.
RECURSIVE ScanVendorModels(_, _, _, _)
ScanVendorModels(ename, vend_mod, k, i) ==
    IF k > Len(vend_mod) THEN <<>>
    ELSE IF i > Len(vend_mod) THEN ScanVendorModels(ename, vend_mod, k + 1, k + 2)
    ELSE IF vend_mod[k].name = vend_mod[i].name
         THEN <<[kind |-> "name", element |-> ename,
                 name |-> vend_mod[k].name, mid |-> vend_mod[k].mid]>>
    ELSE IF vend_mod[k].mid = vend_mod[i].mid
         THEN <<[kind |-> "mid", element |-> ename,
                 name |-> vend_mod[k].name, mid |-> vend_mod[k].mid]>>
    ELSE ScanVendorModels(ename, vend_mod, k, i + 1)

\* defect: the exit() calls are live
check_vendor_models_exit(ename, vendor_models) ==
    LET vend_mod == [i \in 1..Len(vendor_models) |-> VendorModel(vendor_models[i])]
    IN [vend_mod |-> vend_mod,
        warnings |-> ScanVendorModels(ename, vend_mod, 1, 2),
        exits |-> ScanVendorModels(ename, vend_mod, 1, 2) # <<>>]

\* Element.check_vendor_models: the list returned, what was printed, and
\* whether exit() was called (both calls are commented out)
check_vendor_models(ename, vendor_models) ==
    LET vend_mod == [i \in 1..Len(vendor_models) |-> VendorModel(vendor_models[i])]
    IN [vend_mod |-> vend_mod,
        warnings |-> ScanVendorModels(ename, vend_mod, 1, 2),
        exits |-> FALSE]

\* Element.__init__: the object built
Element(rec, sources) ==
    [name |-> rec.name,
     location |-> int0(rec.location),
     sig_models |-> [i \in 1..Len(rec.sig_models) |-> SIGModel(rec.sig_models[i])],
     vendor_models |-> check_vendor_models(rec.name, rec.vendor_models).vend_mod,
     sources |-> sources]

\* Element.__init__: what it printed
ElementWarnings(rec) == check_vendor_models(rec.name, rec.vendor_models).warnings

num_s(e) == Len(e.sig_models)

num_v(e) == Len(e.vendor_models)

SigMids(e) == {e.sig_models[i].mid : i \in 1..Len(e.sig_models)}

VendorVmids(e) == {vmid(e.vendor_models[i]) : i \in 1..Len(e.vendor_models)}

\* defect: only the names are compared
is_mergeable_name_only(self, other) == self.name = other.name

\* defect: the vendor models are not compared
is_mergeable_no_vendor(self, other) ==
    IF self.name # other.name THEN FALSE
    ELSE IF SigMids(self) \cap SigMids(other) # {} THEN FALSE
    ELSE TRUE

is_mergeable_with(self, other) ==
    IF self.name # other.name THEN FALSE
    ELSE IF SigMids(self) \cap SigMids(other) # {} THEN FALSE
    ELSE IF VendorVmids(self) \cap VendorVmids(other) # {} THEN FALSE
    ELSE TRUE

\* defect: the sources are not extended
merge_with_no_sources(self, other) ==
    [self EXCEPT !.sig_models = @ \o other.sig_models,
                 !.vendor_models = @ \o other.vendor_models]

\* defect: the vendor models are not extended
merge_with_no_vendor(self, other) ==
    [self EXCEPT !.sig_models = @ \o other.sig_models,
                 !.sources = @ \o other.sources]

\* Element.merge_with: self after the three extends
merge_with(self, other) ==
    [self EXCEPT !.sig_models = @ \o other.sig_models,
                 !.vendor_models = @ \o other.vendor_models,
                 !.sources = @ \o other.sources]

---------------------------------------------------------------------------
(* DCD *)

\* DCD.__init__: the element list built from the config's records
DCDElements(recs) == [i \in 1..Len(recs) |-> Element(recs[i], <<>>)]

dcd_chunk(filename, recs) ==
    [i \in 1..Len(recs) |-> Element(recs[i], <<Source(filename, recs[i].group)>>)]

total_models(els) == SumSeq([i \in 1..Len(els) |-> num_s(els[i]) + num_v(els[i])])

total_elements(els) == Len(els)

\* defect: the scan takes the last mergeable element, not the first
FoldElementLast(els, e, i) ==
    LET later == {j \in i..Len(els) : is_mergeable_with(els[j], e)}
    IN IF later = {} THEN Append(els, e)
       ELSE LET j == CHOOSE x \in later : \A y \in later : y <= x
            IN [els EXCEPT ![j] = merge_with(els[j], e)]

\* DCD.add_chunk, the inner for/else of one incoming element e: the scan from
\* position i on merges e into the first mergeable element and breaks, or
\* appends e when the scan runs off the end.
RECURSIVE FoldElement(_, _, _)
FoldElement(els, e, i) ==
    IF i > Len(els) THEN Append(els, e)
    ELSE IF is_mergeable_with(els[i], e)
         THEN [els EXCEPT ![i] = merge_with(els[i], e)]
    ELSE FoldElement(els, e, i + 1)

RECURSIVE add_chunk(_, _)
add_chunk(els, c) ==
    IF c = <<>> THEN els
    ELSE add_chunk(FoldElement(els, Head(c), 1), Tail(c))

\* DCD.validate, the three nested loops from (elem i, elem_other j, source k)
\* on: the messages appended to validation_error_list, in order.
RECURSIVE ValidateScan(_, _, _, _)
ValidateScan(els, i, j, k) ==
    IF i > Len(els) THEN <<>>
    ELSE IF j > Len(els) THEN ValidateScan(els, i + 1, i + 2, 1)
    ELSE IF k > Len(els[i].sources) THEN ValidateScan(els, i, j + 1, 1)
    ELSE LET source == els[i].sources[k]
             rest == ValidateScan(els, i, j, k + 1)
         IN IF source.group = NoGroup THEN rest
            ELSE IF \E t \in 1..Len(els[j].sources) : SourceEq(source, els[j].sources[t])
                 THEN <<[group |-> source.group, filename |-> source.filename,
                         elem |-> els[i].name, elem_other |-> els[j].name]>> \o rest
            ELSE rest

\* defect: the messages are printed and the run goes on
validate_no_exit(els) ==
    [printed |-> ValidateScan(els, 1, 2, 1), exits |-> FALSE]

\* DCD.validate: what it prints and whether it calls exit(-1)
validate(els) ==
    LET validation_error_list == ValidateScan(els, 1, 2, 1)
    IN [printed |-> validation_error_list,
        exits |-> validation_error_list # <<>>]

\* DCD.collect_v_models, the loops from (element i, vendor model k) on with
\* the list accumulated so far
RECURSIVE CollectScan(_, _, _, _)
CollectScan(els, i, k, dcd_vendor_model) ==
    IF i > Len(els) THEN dcd_vendor_model
    ELSE IF k > Len(els[i].vendor_models) THEN CollectScan(els, i + 1, 1, dcd_vendor_model)
    ELSE LET me == els[i].vendor_models[k]
             duplicated == \E t \in 1..Len(dcd_vendor_model) :
                               \/ me.name = dcd_vendor_model[t].name
                               \/ me.mid = dcd_vendor_model[t].mid
         IN CollectScan(els, i, k + 1,
                        IF duplicated THEN dcd_vendor_model
                        ELSE Append(dcd_vendor_model, me))

\* defect: duplicated is never reset, so nothing is appended after the
\* first duplicate
RECURSIVE CollectNoReset(_, _, _, _)
CollectNoReset(els, i, k, dcd_vendor_model) ==
    IF i > Len(els) THEN dcd_vendor_model
    ELSE IF k > Len(els[i].vendor_models) THEN CollectNoReset(els, i + 1, 1, dcd_vendor_model)
    ELSE LET me == els[i].vendor_models[k]
             duplicated == \E t \in 1..Len(dcd_vendor_model) :
                               \/ me.name = dcd_vendor_model[t].name
                               \/ me.mid = dcd_vendor_model[t].mid
         IN IF duplicated THEN dcd_vendor_model
            ELSE CollectNoReset(els, i, k + 1, Append(dcd_vendor_model, me))

collect_v_models_no_reset(els) == CollectNoReset(els, 1, 1, <<>>)

collect_v_models(els) == CollectScan(els, 1, 1, <<>>)

---------------------------------------------------------------------------
(* Identifier derivation *)

LowerCase == <<"a", "b", "c", "d", "e", "f", "g", "h", "i", "j", "k", "l", "m",
               "n", "o", "p", "q", "r", "s", "t", "u", "v", "w", "x", "y", "z">>

UpperCase == <<"A", "B", "C", "D", "E", "F", "G", "H", "I", "J", "K", "L", "M",
               "N", "O", "P", "Q", "R", "S", "T", "U", "V", "W", "X", "Y", "Z">>

DecimalDigits == {"0", "1", "2", "3", "4", "5", "6", "7", "8", "9"}

\* str.isdigit of one character
isdigit(c) == c \in DecimalDigits

\* the characters \W does not match
IsWordChar(c) == c \in Range(LowerCase) \cup Range(UpperCase) \cup DecimalDigits \cup {"_"}

\* str.upper of one character
upper(c) ==
    IF \E i \in 1..Len(LowerCase) : LowerCase[i] = c
    THEN UpperCase[CHOOSE i \in 1..Len(LowerCase) : LowerCase[i] = c]
    ELSE c

\* re.sub("\W", "_", name)
SubNonWord(text) == [i \in 1..Len(text) |-> IF IsWordChar(text[i]) THEN text[i] ELSE "_"]

\* to_c_macro: the text returned, or the exception macro[0] raises on an
\* empty text
to_c_macro(text) ==
    LET macro1 == SubNonWord(text)
    IN IF macro1 = <<>>
       THEN [raised |-> "IndexError", value |-> <<>>]
       ELSE LET macro2 == macro1 \o (IF isdigit(macro1[1]) THEN <<"_">> ELSE <<>>)
            IN [raised |-> "", value |-> [i \in 1..Len(macro2) |-> upper(macro2[i])]]

---------------------------------------------------------------------------
(* Inputs: the decoded JSON records and the texts the runs are given *)

MaxInput == 4          \* Spec: files plus element records of one run
MaxFoldInput == 4      \* SpecFold: files plus element records of one run
MaxOrderInput == 3     \* SpecOrder: element records over all .dcd files
MaxCollect == 4        \* SpecCollect: vendor models over all elements
MaxVendor == 3         \* SpecElement: vendor models of one record
MaxLen == 3            \* SpecMacro: length of the text

SigRec(mid, nm) == [mid |-> mid, name |-> nm]

VendRec(mid, cid, nm) == [mid |-> mid, cid |-> cid, name |-> nm]

Rec(nm, group, sigs, vends) ==
    [name |-> nm, location |-> <<"0", "x", "0">>, group |-> group,
     sig_models |-> sigs, vendor_models |-> vends]

\* SIG models: "0x1" and "1" are two spellings of the same mid
sOn == SigRec(<<"0", "x", "1">>, "onoff")
sOnDec == SigRec(<<"1">>, "onoff client")
sLevel == SigRec(<<"2">>, "level")

\* Vendor models: vA and vB have the same vmid (2 << 16 = 1 << 17) and
\* different mids, vB and vC the same mid and different vmids
vA == VendRec(<<"2">>, <<"0">>, "va")
vB == VendRec(<<"1">>, <<"1">>, "vb")
vC == VendRec(<<"0", "x", "1">>, <<"0">>, "vc")
vD == VendRec(<<"3">>, <<"0">>, "va")

FoldRecords ==
    {Rec("main", NoGroup, <<sOn>>, <<>>),
     Rec("main", NoGroup, <<sLevel>>, <<>>),
     Rec("main", NoGroup, <<sOn, sLevel>>, <<>>),
     Rec("main", NoGroup, <<sOn, sOnDec>>, <<>>),
     Rec("main", NoGroup, <<>>, <<vA>>),
     Rec("main", NoGroup, <<>>, <<vB>>),
     Rec("main", NoGroup, <<>>, <<vC>>),
     Rec("sec", NoGroup, <<sOn>>, <<>>),
     Rec("sec", NoGroup, <<>>, <<vA, vB>>)}

FoldFiles == {"a"}

MainModels == {<<"main", <<>>>>, <<"main", <<vA>>>>, <<"sec", <<>>>>}

MainRecords ==
    {Rec(nv[1], g, <<>>, nv[2]) : nv \in MainModels, g \in {NoGroup, <<"">>, <<"g">>}}

\* the config's records: a group given there is dropped by Element.__init__
MainConfigRecords == {Rec(nv[1], NoGroup, <<>>, nv[2]) : nv \in MainModels}

\* "a.dcd" and "a.DCD" in one directory give two chunks the same filename
MainFiles == {"a", "b"}

OrderRecords ==
    {Rec("main", NoGroup, <<sOn>>, <<>>),
     Rec("main", NoGroup, <<sLevel>>, <<vA>>),
     Rec("main", NoGroup, <<>>, <<vB>>),
     Rec("sec", NoGroup, <<sOn>>, <<>>)}

OrderConfigs == {<<>>, <<Rec("main", NoGroup, <<sOn>>, <<>>)>>}

CollectVendorRecs == {vA, vB, vC, vD}

ElementVendorRecs ==
    {VendRec(m, c, n) : m \in {<<"1">>, <<"0", "x", "1">>, <<"2">>},
                        c \in {<<"0">>, <<"1">>},
                        n \in {"va", "vb"}}

MacroAlphabet == {"a", "b", "c", "d", "3", "-", "_", "Z"}

MacroExamples == {<<"a", "b", "-", "c", "d">>, <<"3", "a", "b", "c">>}

\* s cut into the consecutive non-empty pieces that end at the positions
\* in cuts and at the end of s
RECURSIVE SplitAt(_, _, _)
SplitAt(s, cuts, start) ==
    IF start > Len(s) THEN <<>>
    ELSE LET later == {c \in cuts : c >= start}
         IN IF later = {} THEN <<SubSeq(s, start, Len(s))>>
            ELSE <<SubSeq(s, start, Min(later))>> \o SplitAt(s, cuts, Min(later) + 1)

Cuts(s) == SUBSET (1..(Len(s) - 1))

FileNameOf(i) == IF i % 2 = 1 THEN "a" ELSE "b"

\* every Element's SIG mids are pairwise distinct, and so are its vmids
DistinctModels(e) ==
    /\ Cardinality(SigMids(e)) = Len(e.sig_models)
    /\ Cardinality(VendorVmids(e)) = Len(e.vendor_models)

EmptyElement == Element(Rec("", NoGroup, <<>>, <<>>), <<>>)

NoMacro == [raised |-> "", value |-> <<>>]

---------------------------------------------------------------------------
(* __main__ from the construction of the DCD (line 247) on *)

FoldIdle ==
    /\ elements = <<>> /\ prev = <<>> /\ chunk = <<>>
    /\ used = 0 /\ inputsDistinct = TRUE

MainIdle ==
    /\ printed = <<>> /\ exit_status = 0
    /\ h_written = FALSE /\ c_written = FALSE
    /\ unique_vendor_models = <<>>

OrderIdle == dcd0 = <<>> /\ pending = <<>> /\ left = {}

ElementIdle == record = Rec("", NoGroup, <<>>, <<>>) /\ built = EmptyElement /\ log = <<>>

MacroIdle == name = <<>> /\ macro = NoMacro

\* dcd = DCD(**btmeshconf["composition_data"])
Construct(Recs, bound, at) ==
    /\ pc = at
    /\ \E recs \in SeqsUpTo(Recs, bound) :
         /\ elements = DCDElements(recs)
         /\ used = Len(recs)
         /\ inputsDistinct = \A i \in 1..Len(recs) : DistinctModels(DCDElements(recs)[i])
    /\ prev = elements
    /\ chunk = <<>>

\* the input path is a directory: dcd_files is the list of its .dcd files
EnterLoop ==
    /\ pc = "parsed"
    /\ pc' = "fold"
    /\ UNCHANGED <<elements, prev, chunk, used, inputsDistinct>>
    /\ UNCHANGED <<mainVars, orderVars, elemVars, macroVars>>

\* the input path is a file: dcd_files was never assigned, and the loop
\* header raises NameError
EnterLoopUndefined ==
    /\ pc = "parsed"
    /\ pc' = "exited"
    /\ exit_status' = 1
    /\ UNCHANGED <<elements, prev, chunk, used, inputsDistinct>>
    /\ UNCHANGED <<printed, h_written, c_written, unique_vendor_models>>
    /\ UNCHANGED <<orderVars, elemVars, macroVars>>

\* one iteration of the loop over dcd_files:
\* dcd.add_chunk(dcd_chunk(filename, json.load(f)))
AddChunk(Recs, Files, bound) ==
    /\ pc = "fold"
    /\ used < bound
    /\ \E filename \in Files, recs \in SeqsUpTo(Recs, bound - used - 1) :
         LET c == dcd_chunk(filename, recs)
         IN /\ chunk' = c
            /\ prev' = elements
            /\ elements' = add_chunk(elements, c)
            /\ used' = used + 1 + Len(recs)
            /\ inputsDistinct' = (inputsDistinct /\ \A i \in 1..Len(c) : DistinctModels(c[i]))
    /\ pc' = pc
    /\ UNCHANGED <<mainVars, orderVars, elemVars, macroVars>>

\* dcd.validate() after the last file
Validate ==
    /\ pc = "fold"
    /\ printed' = validate(elements).printed
    /\ IF validate(elements).exits
       THEN pc' = "exited" /\ exit_status' = -1
       ELSE pc' = "dcdgen" /\ exit_status' = exit_status
    /\ UNCHANGED <<elements, prev, chunk, used, inputsDistinct>>
    /\ UNCHANGED <<h_written, c_written, unique_vendor_models>>
    /\ UNCHANGED <<orderVars, elemVars, macroVars>>

\* dcd_h_file, dcd_c_file = dcdgen(dcd)
Dcdgen ==
    /\ pc = "dcdgen"
    /\ unique_vendor_models' = collect_v_models(elements)
    /\ pc' = "write_h"
    /\ UNCHANGED <<elements, prev, chunk, used, inputsDistinct>>
    /\ UNCHANGED <<printed, exit_status, h_written, c_written>>
    /\ UNCHANGED <<orderVars, elemVars, macroVars>>

WriteH ==
    /\ pc = "write_h"
    /\ h_written' = TRUE
    /\ pc' = "write_c"
    /\ UNCHANGED <<elements, prev, chunk, used, inputsDistinct>>
    /\ UNCHANGED <<printed, exit_status, c_written, unique_vendor_models>>
    /\ UNCHANGED <<orderVars, elemVars, macroVars>>

WriteC ==
    /\ pc = "write_c"
    /\ c_written' = TRUE
    /\ pc' = "done"
    /\ UNCHANGED <<elements, prev, chunk, used, inputsDistinct>>
    /\ UNCHANGED <<printed, exit_status, h_written, unique_vendor_models>>
    /\ UNCHANGED <<orderVars, elemVars, macroVars>>

MainAddChunk == AddChunk(MainRecords, MainFiles, MaxInput)

Init ==
    /\ Construct(MainConfigRecords, MaxInput, "parsed")
    /\ MainIdle /\ OrderIdle /\ ElementIdle /\ MacroIdle

Next ==
    \/ EnterLoop
    \/ EnterLoopUndefined
    \/ MainAddChunk
    \/ Validate
    \/ Dcdgen
    \/ WriteH
    \/ WriteC

Spec == Init /\ [][Next]_vars

---------------------------------------------------------------------------
(* The fold alone: a run of add_chunk calls on a constructed DCD *)

FoldAddChunk == AddChunk(FoldRecords, FoldFiles, MaxFoldInput)

InitFold ==
    /\ Construct(FoldRecords, MaxFoldInput - 1, "fold")
    /\ MainIdle /\ OrderIdle /\ ElementIdle /\ MacroIdle

NextFold == FoldAddChunk

SpecFold == InitFold /\ [][NextFold]_vars

---------------------------------------------------------------------------
(* The same .dcd files folded in any order (os.listdir gives no order) *)

\* the chunks of the files: records cut into files, the i-th file named
\* FileNameOf(i)
ChunksOf(recs, cuts) ==
    LET pieces == SplitAt(recs, cuts, 1)
    IN [i \in 1..Len(pieces) |-> dcd_chunk(FileNameOf(i), pieces[i])]

\* the chunks folded one after the other, in the order of the list
RECURSIVE FoldInOrder(_, _)
FoldInOrder(els, chunks) ==
    IF chunks = <<>> THEN els
    ELSE FoldInOrder(add_chunk(els, Head(chunks)), Tail(chunks))

AddPending ==
    /\ pc = "fold"
    /\ \E i \in left :
         /\ chunk' = pending[i]
         /\ prev' = elements
         /\ elements' = add_chunk(elements, pending[i])
         /\ used' = used + 1 + Len(pending[i])
         /\ inputsDistinct' = (inputsDistinct /\
                \A k \in 1..Len(pending[i]) : DistinctModels(pending[i][k]))
         /\ left' = left \ {i}
    /\ pc' = pc
    /\ UNCHANGED <<dcd0, pending>>
    /\ UNCHANGED <<mainVars, elemVars, macroVars>>

InitOrder ==
    /\ pc = "fold"
    /\ \E conf \in OrderConfigs :
         /\ elements = DCDElements(conf)
         /\ used = Len(conf)
         /\ inputsDistinct = \A i \in 1..Len(conf) : DistinctModels(DCDElements(conf)[i])
    /\ prev = elements
    /\ chunk = <<>>
    /\ dcd0 = elements
    /\ \E recs \in SeqsUpTo(OrderRecords, MaxOrderInput) :
         \E cuts \in Cuts(recs) : pending = ChunksOf(recs, cuts)
    /\ left = 1..Len(pending)
    /\ MainIdle /\ ElementIdle /\ MacroIdle

NextOrder == AddPending

SpecOrder == InitOrder /\ [][NextOrder]_vars

---------------------------------------------------------------------------
(* The aggregator on a DCD built from the config alone *)

\* the config's elements: vendor model records cut into elements
CollectConfig(vrecs, cuts) ==
    LET pieces == SplitAt(vrecs, cuts, 1)
    IN [i \in 1..Len(pieces) |->
          Rec(IF i % 2 = 1 THEN "main" ELSE "sec", NoGroup, <<>>, pieces[i])]

InitCollect ==
    /\ pc = "dcdgen"
    /\ \E vrecs \in SeqsUpTo(CollectVendorRecs, MaxCollect) :
         \E cuts \in Cuts(vrecs) :
            /\ elements = DCDElements(CollectConfig(vrecs, cuts))
            /\ used = Len(CollectConfig(vrecs, cuts))
    /\ inputsDistinct = \A i \in 1..Len(elements) : DistinctModels(elements[i])
    /\ prev = elements
    /\ chunk = <<>>
    /\ MainIdle /\ OrderIdle /\ ElementIdle /\ MacroIdle

NextCollect ==
    \/ Dcdgen
    \/ WriteH
    \/ WriteC

SpecCollect == InitCollect /\ [][NextCollect]_vars

---------------------------------------------------------------------------
(* One call of the Element constructor *)

ConstructElement ==
    /\ pc = "call"
    /\ built' = Element(record, <<>>)
    /\ log' = ElementWarnings(record)
    /\ IF check_vendor_models(record.name, record.vendor_models).exits
       THEN pc' = "exited" /\ exit_status' = 1
       ELSE pc' = "ret" /\ exit_status' = exit_status
    /\ UNCHANGED <<record, elements, prev, chunk, used, inputsDistinct>>
    /\ UNCHANGED <<printed, h_written, c_written, unique_vendor_models>>
    /\ UNCHANGED <<orderVars, macroVars>>

InitElement ==
    /\ pc = "call"
    /\ \E vrecs \in SeqsUpTo(ElementVendorRecs, MaxVendor) :
         record = Rec("main", NoGroup, <<sOn>>, vrecs)
    /\ built = EmptyElement
    /\ log = <<>>
    /\ FoldIdle /\ MainIdle /\ OrderIdle /\ MacroIdle

NextElement == ConstructElement

SpecElement == InitElement /\ [][NextElement]_vars

---------------------------------------------------------------------------
(* One call of to_c_macro *)

CallToCMacro ==
    /\ pc = "call"
    /\ macro' = to_c_macro(name)
    /\ pc' = "ret"
    /\ UNCHANGED <<name, elements, prev, chunk, used, inputsDistinct>>
    /\ UNCHANGED <<mainVars, orderVars, elemVars>>

InitMacro ==
    /\ pc = "call"
    /\ name \in SeqsUpTo(MacroAlphabet, MaxLen) \cup MacroExamples
    /\ macro = NoMacro
    /\ FoldIdle /\ MainIdle /\ OrderIdle /\ ElementIdle

NextMacro == CallToCMacro

SpecMacro == InitMacro /\ [][NextMacro]_vars

---------------------------------------------------------------------------
(* Properties of the fold, stated on the last add_chunk call: prev is the  *)
(* list before the call, chunk its argument, elements the list after it.   *)

\* the list before and after the k-th incoming element of the call
Pre(k) == add_chunk(prev, SubSeq(chunk, 1, k - 1))

Post(k) == add_chunk(prev, SubSeq(chunk, 1, k))

\* the accumulated elements the predicate accepts for the k-th incoming one
Mergeable(k) == {i \in 1..Len(Pre(k)) : is_mergeable_with(Pre(k)[i], chunk[k])}

\* the entry that holds the k-th incoming element afterwards
Holder(k) ==
    IF Len(Post(k)) > Len(Pre(k)) THEN Len(Post(k))
    ELSE CHOOSE i \in 1..Len(Pre(k)) : Post(k)[i] # Pre(k)[i]

SameName(a, b) == a.name = b.name

DisjointModels(a, b) ==
    /\ SigMids(a) \cap SigMids(b) = {}
    /\ VendorVmids(a) \cap VendorVmids(b) = {}

IsPrefix(s, t) == Len(s) <= Len(t) /\ SubSeq(t, 1, Len(s)) = s

\* C1: for a DCD holding exactly [a] and a call add_chunk([b]) with a and b
\* of equal name and disjoint SIG mids and disjoint vendor vmids, the
\* predicate is true and the list afterwards is one Element whose
\* sig_models, vendor_models and sources are a's followed by b's.
C1_MergeConcatenates ==
    (/\ Len(prev) = 1 /\ Len(chunk) = 1
     /\ SameName(prev[1], chunk[1])
     /\ DisjointModels(prev[1], chunk[1]))
    => /\ is_mergeable_with(prev[1], chunk[1])
       /\ Len(elements) = 1
       /\ elements[1].name = prev[1].name
       /\ elements[1].sig_models = prev[1].sig_models \o chunk[1].sig_models
       /\ elements[1].vendor_models = prev[1].vendor_models \o chunk[1].vendor_models
       /\ elements[1].sources = prev[1].sources \o chunk[1].sources

C1_Witness ==
    /\ Len(prev) = 1 /\ Len(chunk) = 1
    /\ SameName(prev[1], chunk[1])
    /\ DisjointModels(prev[1], chunk[1])
    /\ prev[1].sources # <<>>
    /\ num_s(prev[1]) > 0 /\ num_v(chunk[1]) > 0
    /\ Len(elements) = 1

\* C2 as stated: whenever an incoming element b meets an accumulated element
\* a of equal name that shares a SIG mid or a vendor vmid with it, a's entry
\* is left as it was, b is held by another entry, and a's entry precedes
\* the entry holding b.
C2_Original ==
    \A k \in 1..Len(chunk) : \A i \in 1..Len(Pre(k)) :
        (SameName(Pre(k)[i], chunk[k]) /\ ~DisjointModels(Pre(k)[i], chunk[k]))
        => /\ Post(k)[i] = Pre(k)[i]
           /\ Holder(k) > i

\* C2 as amended: a's entry is left as it was and b is held by another
\* entry; that entry comes after a's unless an accumulated element before a
\* is mergeable with b, in which case the entry holding b comes before a's.
C2_NeverMergedIntoCollider ==
    \A k \in 1..Len(chunk) : \A i \in 1..Len(Pre(k)) :
        (SameName(Pre(k)[i], chunk[k]) /\ ~DisjointModels(Pre(k)[i], chunk[k]))
        => /\ Post(k)[i] = Pre(k)[i]
           /\ Holder(k) # i
           /\ (Holder(k) < i) <=> (\E j \in 1..(i - 1) : j \in Mergeable(k))

C2_Witness ==
    \E k \in 1..Len(chunk) : \E i \in 1..Len(Pre(k)) :
        /\ SameName(Pre(k)[i], chunk[k])
        /\ VendorVmids(Pre(k)[i]) \cap VendorVmids(chunk[k]) # {}
        /\ \A v \in 1..num_v(Pre(k)[i]) : \A w \in 1..num_v(chunk[k]) :
              Pre(k)[i].vendor_models[v].mid # chunk[k].vendor_models[w].mid
        /\ Holder(k) > i

\* C9: each incoming element, in chunk order, is merged into the first
\* accumulated element (in the list as it is then, elements appended earlier
\* by the same call included) that the predicate accepts, and only into it,
\* or is appended at the end when the predicate accepts none; no existing
\* element is removed or moved.
C9_FirstMatchOrAppend ==
    /\ elements = (IF chunk = <<>> THEN prev ELSE Post(Len(chunk)))
    /\ \A k \in 1..Len(chunk) :
         IF Mergeable(k) = {}
         THEN Post(k) = Append(Pre(k), chunk[k])
         ELSE /\ Len(Post(k)) = Len(Pre(k))
              /\ \A i \in 1..Len(Pre(k)) :
                   IF i = Min(Mergeable(k))
                   THEN /\ Post(k)[i].name = Pre(k)[i].name
                        /\ Post(k)[i].location = Pre(k)[i].location
                        /\ Post(k)[i].sig_models =
                              Pre(k)[i].sig_models \o chunk[k].sig_models
                        /\ Post(k)[i].vendor_models =
                              Pre(k)[i].vendor_models \o chunk[k].vendor_models
                        /\ Post(k)[i].sources = Pre(k)[i].sources \o chunk[k].sources
                   ELSE Post(k)[i] = Pre(k)[i]
    /\ Len(elements) >= Len(prev)
    /\ \A i \in 1..Len(prev) :
         /\ elements[i].name = prev[i].name
         /\ IsPrefix(prev[i].sig_models, elements[i].sig_models)
         /\ IsPrefix(prev[i].vendor_models, elements[i].vendor_models)
         /\ IsPrefix(prev[i].sources, elements[i].sources)

\* the first incoming element is appended; the second is accepted by an older
\* element and by the one just appended, and goes into the older one
C9_Witness ==
    /\ Len(chunk) >= 2
    /\ prev # <<>>
    /\ Mergeable(1) = {}
    /\ Cardinality(Mergeable(2)) >= 2
    /\ Len(prev) + 1 \in Mergeable(2)
    /\ Len(elements[Min(Mergeable(2))].sources) > Len(prev[Min(Mergeable(2))].sources)

\* C10: if every Element built from the config and from the chunks had
\* pairwise distinct SIG mids and pairwise distinct vendor vmids, every
\* accumulated Element has them too.
C10_DistinctKept ==
    inputsDistinct => \A i \in 1..Len(elements) : DistinctModels(elements[i])

C10_Witness ==
    /\ inputsDistinct
    /\ \E i \in 1..Len(elements) :
         /\ Len(elements[i].sources) >= 2
         /\ num_s(elements[i]) >= 2
         /\ num_v(elements[i]) >= 1

---------------------------------------------------------------------------
(* Order of the files *)

\* no Element of one file shares a SIG mid or a vendor vmid with an Element
\* of the same name of another file
NoCrossChunkCollisions ==
    \A i \in 1..Len(pending) : \A j \in 1..Len(pending) :
        i # j => \A x \in 1..Len(pending[i]) : \A y \in 1..Len(pending[j]) :
                    SameName(pending[i][x], pending[j][y])
                    => DisjointModels(pending[i][x], pending[j][y])

\* C6: when no models collide across chunks, the total model count after
\* folding all chunks, in whichever order they were folded, is the count
\* that folding them in the order of the list gives.
C6_TotalOrderInvariant ==
    (left = {} /\ NoCrossChunkCollisions)
    => total_models(elements) = total_models(FoldInOrder(dcd0, pending))

\* all chunks folded in another order than the list's, and another element
\* list than the list's order gives
C6_Witness ==
    /\ left = {}
    /\ Len(pending) >= 2
    /\ NoCrossChunkCollisions
    /\ elements # FoldInOrder(dcd0, pending)
    /\ Len(elements) = Len(FoldInOrder(dcd0, pending))
    /\ total_models(elements) >= 3

---------------------------------------------------------------------------
(* Validation and the end-to-end run *)

AfterValidate == {"dcdgen", "write_h", "write_c", "done"}

\* two distinct Elements, one with a Source of non-empty group that equals a
\* Source of the other
SharedNonEmptyGroup(els) ==
    \E i \in 1..Len(els) : \E j \in 1..Len(els) :
        /\ i # j
        /\ \E x \in 1..Len(els[i].sources) : \E y \in 1..Len(els[j].sources) :
              /\ els[i].sources[x].group # NoGroup
              /\ els[i].sources[x].group # <<"">>
              /\ els[i].sources[x] = els[j].sources[y]

\* C3: validate ends the process with a failure status exactly when two
\* distinct Elements share a Source whose group is non-empty, and returns
\* normally in every other case.
C3_ValidateIff ==
    /\ (pc = "exited" /\ exit_status = -1) => SharedNonEmptyGroup(elements)
    /\ pc \in AfterValidate => ~SharedNonEmptyGroup(elements)

\* C5: once validate has found a violation the process has ended with a
\* non-zero status, and neither the aggregator nor a write has run; a file
\* is written only after the fold loop and a validate that found nothing.
C5_NoOutputAfterFailure ==
    /\ printed # <<>> =>
          /\ pc = "exited"
          /\ exit_status # 0
          /\ unique_vendor_models = <<>>
          /\ ~h_written /\ ~c_written
    /\ (h_written \/ c_written) =>
          /\ pc \in {"write_c", "done"}
          /\ exit_status = 0
          /\ validate(elements).printed = <<>>
          /\ unique_vendor_models = collect_v_models(elements)
    /\ c_written => h_written

C5_Witness ==
    /\ pc = "exited"
    /\ exit_status = -1
    /\ Len(printed) >= 2
    /\ Len(elements) >= 2
    /\ ~h_written /\ ~c_written

---------------------------------------------------------------------------
(* Aggregator *)

RECURSIVE Flat(_)
Flat(els) == IF els = <<>> THEN <<>> ELSE Head(els).vendor_models \o Flat(Tail(els))

\* the candidates in order, each skipped exactly when an entry accumulated
\* so far shares its name or its mid
RECURSIVE FirstByNameOrMid(_, _)
FirstByNameOrMid(cands, acc) ==
    IF cands = <<>> THEN acc
    ELSE FirstByNameOrMid(Tail(cands),
            IF \E t \in 1..Len(acc) : \/ acc[t].name = Head(cands).name
                                      \/ acc[t].mid = Head(cands).mid
            THEN acc ELSE Append(acc, Head(cands)))

\* the candidates in order, each skipped exactly when an entry accumulated
\* so far shares its name or its vmid
RECURSIVE FirstByNameOrVmid(_, _)
FirstByNameOrVmid(cands, acc) ==
    IF cands = <<>> THEN acc
    ELSE FirstByNameOrVmid(Tail(cands),
            IF \E t \in 1..Len(acc) : \/ acc[t].name = Head(cands).name
                                      \/ vmid(acc[t]) = vmid(Head(cands))
            THEN acc ELSE Append(acc, Head(cands)))

\* C4 as stated: the aggregate is the vendor models of the elements in
\* order, a candidate skipped exactly when an accumulated entry shares its
\* name or its vmid; the elements keep their models.
C4_Original ==
    pc \in {"write_h", "write_c", "done"} =>
        /\ unique_vendor_models = FirstByNameOrVmid(Flat(elements), <<>>)
        /\ elements = prev

\* C4 as amended: a candidate is skipped exactly when an accumulated entry
\* shares its name or its mid.
C4_FirstByNameOrMid ==
    pc \in {"write_h", "write_c", "done"} =>
        /\ unique_vendor_models = FirstByNameOrMid(Flat(elements), <<>>)
        /\ elements = prev

\* a model of another element was dropped for its mid, its name and vmid
\* being new
C4_Witness ==
    /\ pc = "write_h"
    /\ Len(elements) >= 2
    /\ Len(unique_vendor_models) >= 2
    /\ \E i \in 2..Len(elements) : \E k \in 1..num_v(elements[i]) :
         LET me == elements[i].vendor_models[k]
         IN /\ \A t \in 1..Len(unique_vendor_models) :
                 /\ unique_vendor_models[t].name # me.name
                 /\ vmid(unique_vendor_models[t]) # vmid(me)
            /\ \E t \in 1..Len(unique_vendor_models) : unique_vendor_models[t].mid = me.mid

---------------------------------------------------------------------------
(* Element constructor *)

\* two vendor models of the record share a name or a mid
SharesNameOrMid(vrecs) ==
    \E i \in 1..Len(vrecs) : \E j \in 1..Len(vrecs) :
        /\ i < j
        /\ \/ vrecs[i].name = vrecs[j].name
           \/ int0(vrecs[i].mid) = int0(vrecs[j].mid)

\* C7: the constructor returns whatever the vendor models are; it prints a
\* warning exactly when two vendor models of the record share a name or a
\* mid; the Element's vendor_models is the whole input list in input order.
C7_WarnsAndKeepsAll ==
    pc # "call" =>
        /\ pc = "ret"
        /\ exit_status = 0
        /\ (log # <<>>) <=> SharesNameOrMid(record.vendor_models)
        /\ Len(built.vendor_models) = Len(record.vendor_models)
        /\ \A i \in 1..Len(record.vendor_models) :
              built.vendor_models[i] = VendorModel(record.vendor_models[i])

\* a warning for a mid written in two ways, after a pair that shares nothing
C7_Witness ==
    /\ pc = "ret"
    /\ Len(log) = 1
    /\ log[1].kind = "mid"
    /\ Len(built.vendor_models) = 3
    /\ \A i \in 1..3 : \A j \in 1..3 :
          i # j => record.vendor_models[i].mid # record.vendor_models[j].mid
    /\ built.vendor_models[1].mid # built.vendor_models[2].mid

---------------------------------------------------------------------------
(* Identifier derivation *)

\* each character that is no letter, digit or underscore replaced by an
\* underscore, one underscore appended when the input begins with a digit,
\* the whole upper-cased
ExpectedMacro(text) ==
    LET replaced == [i \in 1..Len(text) |-> IF IsWordChar(text[i]) THEN text[i] ELSE "_"]
        suffix == IF text # <<>> /\ text[1] \in DecimalDigits THEN <<"_">> ELSE <<>>
    IN [i \in 1..Len(replaced \o suffix) |-> upper((replaced \o suffix)[i])]

\* C8: to_c_macro maps every text to ExpectedMacro of it; "ab-cd" gives
\* "AB_CD" and "3abc" gives "3ABC_".
C8_MacroOfEveryText ==
    pc = "ret" =>
        /\ macro.raised = ""
        /\ macro.value = ExpectedMacro(name)
        /\ name = <<"a", "b", "-", "c", "d">> => macro.value = <<"A", "B", "_", "C", "D">>
        /\ name = <<"3", "a", "b", "c">> => macro.value = <<"3", "A", "B", "C", "_">>

===========================================================================
